---- MODULE Spec2Model ----
(***************************************************************************)
(* A model of the document-to-chunk pipeline and the Kendra gateway of the *)
(* RAG front end:                                                          *)
(*   utils/document_processor.py  DocumentProcessor.chunk_text             *)
(*   services/kendra_service.py   KendraService                            *)
(*   pages/home.py                process_files                            *)
(* Strings are sequences of one-character strings, so that len(), slicing  *)
(* and concatenation are computed rather than assumed.                     *)
(***************************************************************************)
EXTENDS Integers, Sequences, FiniteSets, TLC

VARIABLES
    \* ---- DocumentProcessor.chunk_text: arguments and locals
    text, chunk_size, overlap,   \* the arguments of the call
    start, chunks,               \* the locals `start` and `chunks`
    windows,                     \* history: the (start, end) of each iteration
    pcChunk,                     \* "idle" | "entry" | "while" | "returned"
    \* ---- KendraService
    client,                      \* self.client: "None" or the boto3 client
    call,                        \* the last method call: what it sent and gave back
    \* ---- pages/home.py process_files and the session state it writes
    uploaded_files,              \* the argument of process_files
    idx, successful, failed,     \* the loop index and the two tallies
    events,                      \* history: the steps taken, in order
    uploaded_documents,          \* st.session_state.uploaded_documents
    doc_count,                   \* st.session_state.doc_count
    last_action,                 \* history: "init" | "add" | "delete" | "clear", the last change of the list
    pcFiles,                     \* "idle" | "loop" | "done"
    \* ---- DocumentProcessor.process_file, one call
    upload,                      \* the argument of the call
    invoked,                     \* history: the handlers called, in order
    handled,                     \* what the handler gave back
    processed,                   \* how process_file ended
    pcFile,                      \* "idle" | "entry" | "dispatched" | "handled" | "returned" | "raised"
    \* ---- Config, as loaded from the environment at import
    config,                      \* AWS_ACCESS_KEY_ID, AWS_SECRET_ACCESS_KEY, KENDRA_INDEX_ID
    \* ---- st.session_state, the chat log
    chat_history,                \* every message of the session
    current_conversation,        \* the messages since the last clear
    chat_op,                     \* history: "init" | "add" | "clear", the last call
    now                          \* datetime.now(), as a logical clock

chunkVars == <<text, chunk_size, overlap, start, chunks, windows, pcChunk>>
gatewayVars == <<client, call>>
batchVars == <<uploaded_files, idx, successful, failed, events, pcFiles>>
sessionVars == <<uploaded_documents, doc_count, last_action>>
extractVars == <<upload, invoked, handled, processed, pcFile>>

\* The variables of the components modelled after the first four.
chatVars == <<chat_history, current_conversation, chat_op, now>>
restVars == <<extractVars, config, chatVars>>

vars == <<chunkVars, gatewayVars, batchVars, sessionVars, restVars>>

----------------------------------------------------------------------------
(* Bounds of the model *)

MaxTextLen == 5
MaxChunkSize == 4
MaxOverlap == 4

\* The loop of chunk_text is cut after this many appended chunks.  A call with
\* overlap < chunk_size appends at most len(text) chunks, so the cut is only
\* ever met by a call whose window does not advance.
MaxChunks == MaxTextLen + 2

\* The longest ResultItems list a backend reply carries, and the largest
\* max_results a caller passes.
MaxItems == 3
MaxResultsArg == 2

\* The longest Suggestions list a backend reply carries.
MaxSuggestions == 2

\* The most files in one call of process_files.
MaxBatch == 3

Alphabet == {"a", "b"}

RECURSIVE StringsUpTo(_)
StringsUpTo(n) ==
    IF n = 0 THEN {<<>>}
    ELSE LET shorter == StringsUpTo(n - 1)
         IN  shorter \cup {Append(s, c) : s \in {t \in shorter : Len(t) = n - 1}, c \in Alphabet}

Texts == StringsUpTo(MaxTextLen)

----------------------------------------------------------------------------
(* Python helpers *)

Min(a, b) == IF a < b THEN a ELSE b
Max(a, b) == IF a > b THEN a ELSE b

\* A slice bound as Python normalises it: a negative bound counts from the
\* end, and every bound is clamped to 0..len.
PyBound(i, n) == IF i < 0 THEN Max(i + n, 0) ELSE Min(i, n)

\* s[i:j]
PySlice(s, i, j) ==
    LET lo == PyBound(i, Len(s))
        hi == PyBound(j, Len(s))
    IN  IF lo < hi THEN SubSeq(s, lo + 1, hi) ELSE <<>>

\* s[-k:] for k > 0
PyLast(s, k) == PySlice(s, -k, Len(s))

\* s[:k]
PyFirst(s, k) == PySlice(s, 0, k)

\* ceil(a / b) for b > 0
CeilDiv(a, b) == IF a <= 0 THEN 0 ELSE ((a - 1) \div b) + 1

----------------------------------------------------------------------------
(* DocumentProcessor.chunk_text: the loop, one statement per operator *)

\* while start < text_length
WhileCondLe(s, text_length) == s <= text_length
WhileCond(s, text_length) == s < text_length

\* end = start + chunk_size
WindowEndShort(s, size) == s + size - 1
WindowEnd(s, size) == s + size

\* chunk = text[start:end]
ChunkOfFromOne(t, s, e) == PySlice(t, s + 1, e)
ChunkOf(t, s, e) == PySlice(t, s, e)

\* start = end - overlap
NextStartGap(e, ov) == e - ov + 1
NextStart(e, ov) == e - ov

\* No call of chunk_text under way.
ChunkIdle ==
    /\ text = <<>> /\ chunk_size = 0 /\ overlap = 0
    /\ start = 0 /\ chunks = <<>> /\ windows = <<>>
    /\ pcChunk = "idle"

\* A call chunk_text(text, chunk_size, overlap) about to run.
ChunkCall ==
    /\ text \in Texts
    /\ chunk_size \in 0..MaxChunkSize
    /\ overlap \in 0..MaxOverlap
    /\ start = 0 /\ chunks = <<>> /\ windows = <<>>
    /\ pcChunk = "entry"

\* chunks = []; start = 0; text_length = len(text)
ChunkTextEnter ==
    /\ pcChunk = "entry"
    /\ chunks' = <<>>
    /\ start' = 0
    /\ windows' = <<>>
    /\ pcChunk' = "while"
    /\ UNCHANGED <<text, chunk_size, overlap>>
    /\ UNCHANGED <<gatewayVars, batchVars, sessionVars, restVars>>

\* One iteration of the while loop.
ChunkTextIterate ==
    /\ pcChunk = "while"
    /\ WhileCond(start, Len(text))
    /\ Len(chunks) < MaxChunks
    /\ LET end == WindowEnd(start, chunk_size)
           chunk == ChunkOf(text, start, end)
       IN  /\ chunks' = Append(chunks, chunk)
           /\ windows' = Append(windows, <<start, end>>)
           /\ start' = NextStart(end, overlap)
    /\ UNCHANGED <<text, chunk_size, overlap, pcChunk>>
    /\ UNCHANGED <<gatewayVars, batchVars, sessionVars, restVars>>

\* The loop condition fails: return chunks.
ChunkTextReturn ==
    /\ pcChunk = "while"
    /\ ~WhileCond(start, Len(text))
    /\ pcChunk' = "returned"
    /\ UNCHANGED <<text, chunk_size, overlap, start, chunks, windows>>
    /\ UNCHANGED <<gatewayVars, batchVars, sessionVars, restVars>>

ChunkNext == ChunkTextEnter \/ ChunkTextIterate \/ ChunkTextReturn

\* chunk_text as a function, for the callers that only use its result
\* (defined for overlap < chunk_size, where the loop ends).
RECURSIVE chunk_text_from(_, _, _, _)
chunk_text_from(t, size, ov, s) ==
    IF WhileCond(s, Len(t))
    THEN LET end == WindowEnd(s, size)
         IN  <<ChunkOf(t, s, end)>> \o chunk_text_from(t, size, ov, NextStart(end, ov))
    ELSE <<>>

chunk_text(t, size, ov) == chunk_text_from(t, size, ov, 0)

----------------------------------------------------------------------------
(* config/config.py *)

KENDRA_MAX_RESULTS == 5

\* Config.KENDRA_INDEX_ID, as KendraService.__init__ reads it.
KENDRA_INDEX_ID == config.KENDRA_INDEX_ID

\* os.getenv(name, ''): the variable's value, or '' when it is not set
Configs ==
    [AWS_ACCESS_KEY_ID : {"", "AKIAEXAMPLE"},
     AWS_SECRET_ACCESS_KEY : {"", "secret"},
     KENDRA_INDEX_ID : {"", "index-1"}]

\* Any environment, a required variable missing or not.
ConfigLoaded == config \in Configs

\* An environment with every required variable set.
ConfigComplete ==
    config = [AWS_ACCESS_KEY_ID |-> "AKIAEXAMPLE", AWS_SECRET_ACCESS_KEY |-> "secret",
              KENDRA_INDEX_ID |-> "index-1"]

----------------------------------------------------------------------------
(* Python dicts are functions over their keys *)

\* d.get(k, default)
Get(d, k, default) == IF k \in DOMAIN d THEN d[k] ELSE default

RECURSIVE SeqsUpTo(_, _)
SeqsUpTo(S, n) ==
    IF n = 0 THEN {<<>>}
    ELSE LET shorter == SeqsUpTo(S, n - 1)
         IN  shorter \cup {Append(q, x) : q \in {t \in shorter : Len(t) = n - 1}, x \in S}

----------------------------------------------------------------------------
(* The search backend, as the boto3 client shows it: a call either raises *)
(* or returns a response dict.                                            *)

BackendFailures == {"ThrottlingException"}

\* Elements of a query response's ResultItems; keys may be missing.
BackendItems ==
    { [Id |-> "r1", Type |-> "DOCUMENT",
       ScoreAttributes |-> [ScoreConfidence |-> "HIGH"],
       DocumentTitle |-> [Text |-> "Title 1"],
       DocumentExcerpt |-> [Text |-> "Excerpt 1"],
       DocumentURI |-> "s3://bucket/1",
       DocumentAttributes |-> <<[Key |-> "_source_uri"]>>],
      [Id |-> "r2", Type |-> "ANSWER",
       ScoreAttributes |-> [ScoreConfidence |-> "VERY_HIGH"],
       DocumentExcerpt |-> [Text |-> "Excerpt 2"]],
      [Id |-> "r3", Format |-> "TEXT"] }

QueryResponses ==
    {[QueryId |-> "q-1"]}
        \cup {[QueryId |-> "q-1", ResultItems |-> items] : items \in SeqsUpTo(BackendItems, MaxItems)}

\* Elements of a suggestions response's Suggestions.
BackendSuggestions ==
    { [Id |-> "s1", Value |-> [Text |-> [Text |-> "kendra pricing"]]],
      [Id |-> "s2"] }

SuggestionResponses ==
    {[ResponseMetadata |-> "m"]}
        \cup {[ResponseMetadata |-> "m", Suggestions |-> sg] : sg \in SeqsUpTo(BackendSuggestions, MaxSuggestions)}

BatchPutResponses ==
    {[ResponseMetadata |-> "m"], [ResponseMetadata |-> "m", FailedDocuments |-> <<[Id |-> "doc-1"]>>]}

DeleteResponses == {[ResponseMetadata |-> "m"]}

DescribeResponses ==
    {[ResponseMetadata |-> "m"],
     [ResponseMetadata |-> "m", Name |-> "docs", Status |-> "ACTIVE", Description |-> "d",
      CreatedAt |-> "t0", UpdatedAt |-> "t1"]}

NoResponse == [ResponseMetadata |-> "none"]

\* What the backend does with one call.
Replies(responses) ==
    {[raises |-> TRUE, message |-> m, response |-> NoResponse] : m \in BackendFailures}
        \cup {[raises |-> FALSE, message |-> "", response |-> r] : r \in responses}

NoReply == [raises |-> FALSE, message |-> "", response |-> NoResponse]
NoRequest == [api |-> "none"]

----------------------------------------------------------------------------
(* KendraService: each method as what it sends to the backend (`made`,     *)
(* `request`) and how it ends (`outcome`, `value`), given the client and   *)
(* the backend's reply.  An exception is the tuple of its message parts.   *)

NotInitialized == <<"Kendra client not initialized. Call initialize_client() first.">>

NoneTypeError(attr) == <<"'NoneType' object has no attribute ", attr>>

Raise(message) == [made |-> FALSE, request |-> NoRequest, outcome |-> "raised", value |-> message]
Return(v) == [made |-> FALSE, request |-> NoRequest, outcome |-> "returned", value |-> v]

\* The end of a call that reached the backend.
Sent(request, outcome, v) == [made |-> TRUE, request |-> request, outcome |-> outcome, value |-> v]

\* One element of results['items']
result_item(item) ==
    [id |-> Get(item, "Id", ""),
     type |-> Get(item, "Type", ""),
     score |-> Get(Get(item, "ScoreAttributes", <<>>), "ScoreConfidence", "UNKNOWN"),
     document_title |-> Get(Get(item, "DocumentTitle", <<>>), "Text", "Untitled"),
     document_excerpt |-> Get(Get(item, "DocumentExcerpt", <<>>), "Text", ""),
     document_uri |-> Get(item, "DocumentURI", ""),
     attributes |-> Get(item, "DocumentAttributes", <<>>)]

\* for item in response.get('ResultItems', []): results['items'].append(...)
result_items_reversed(items) ==
    [i \in 1..Len(items) |-> result_item(items[Len(items) + 1 - i])]
result_items(items) == [i \in 1..Len(items) |-> result_item(items[i])]

query(c, query_text, max_results, reply) ==
    IF c = "None" THEN Raise(NotInitialized)
    ELSE LET page == IF max_results.given THEN max_results.value ELSE KENDRA_MAX_RESULTS
             request == [api |-> "query", IndexId |-> KENDRA_INDEX_ID,
                         QueryText |-> query_text, PageSize |-> page]
             items == Get(reply.response, "ResultItems", <<>>)
         IN  IF reply.raises
             THEN Sent(request, "raised", <<"Kendra query failed: ", reply.message>>)
             ELSE Sent(request, "returned",
                       [query |-> query_text,
                        total_results |-> Len(items),
                        items |-> result_items(items)])

batch_put_document(c, documents, reply) ==
    IF c = "None" THEN Raise(NotInitialized)
    ELSE LET request == [api |-> "batch_put_document", IndexId |-> KENDRA_INDEX_ID,
                         Documents |-> documents]
         IN  IF reply.raises
             THEN Sent(request, "raised", <<"Batch document upload failed: ", reply.message>>)
             ELSE Sent(request, "returned",
                       [success |-> TRUE,
                        failed_documents |-> Get(reply.response, "FailedDocuments", <<>>)])

\* delete_document without its `if not self.client` test: the call on None
\* raises inside the try and is wrapped.
delete_document_unguarded(c, document_id, reply) ==
    LET request == [api |-> "batch_delete_document", IndexId |-> KENDRA_INDEX_ID,
                    DocumentIdList |-> <<document_id>>]
    IN  IF c = "None"
        THEN Raise(<<"Document deletion failed: ">> \o NoneTypeError("batch_delete_document"))
        ELSE IF reply.raises
        THEN Sent(request, "raised", <<"Document deletion failed: ", reply.message>>)
        ELSE Sent(request, "returned", TRUE)

delete_document(c, document_id, reply) ==
    IF c = "None" THEN Raise(NotInitialized)
    ELSE LET request == [api |-> "batch_delete_document", IndexId |-> KENDRA_INDEX_ID,
                         DocumentIdList |-> <<document_id>>]
         IN  IF reply.raises
             THEN Sent(request, "raised", <<"Document deletion failed: ", reply.message>>)
             ELSE Sent(request, "returned", TRUE)

\* item.get('Value', {}).get('Text', {}).get('Text', '')
suggestion_text(item) == Get(Get(Get(item, "Value", <<>>), "Text", <<>>), "Text", "")

\* get_query_suggestions with its except clause re-raising.
get_query_suggestions_raising(c, query_text, max_suggestions, reply) ==
    IF c = "None" THEN Return(<<>>)
    ELSE LET request == [api |-> "get_query_suggestions", IndexId |-> KENDRA_INDEX_ID,
                         QueryText |-> query_text, MaxSuggestionsCount |-> max_suggestions]
             sg == Get(reply.response, "Suggestions", <<>>)
         IN  IF reply.raises
             THEN Sent(request, "raised", <<"Failed to get suggestions: ", reply.message>>)
             ELSE Sent(request, "returned", [i \in 1..Len(sg) |-> suggestion_text(sg[i])])

get_query_suggestions(c, query_text, max_suggestions, reply) ==
    IF c = "None" THEN Return(<<>>)
    ELSE LET request == [api |-> "get_query_suggestions", IndexId |-> KENDRA_INDEX_ID,
                         QueryText |-> query_text, MaxSuggestionsCount |-> max_suggestions]
             sg == Get(reply.response, "Suggestions", <<>>)
         IN  IF reply.raises
             THEN Sent(request, "returned", <<>>)
             ELSE Sent(request, "returned", [i \in 1..Len(sg) |-> suggestion_text(sg[i])])

describe_index(c, reply) ==
    IF c = "None" THEN Raise(NotInitialized)
    ELSE LET request == [api |-> "describe_index", Id |-> KENDRA_INDEX_ID]
             r == reply.response
         IN  IF reply.raises
             THEN Sent(request, "raised", <<"Failed to describe index: ", reply.message>>)
             ELSE Sent(request, "returned",
                       [name |-> Get(r, "Name", ""),
                        status |-> Get(r, "Status", ""),
                        description |-> Get(r, "Description", ""),
                        created_at |-> Get(r, "CreatedAt", ""),
                        updated_at |-> Get(r, "UpdatedAt", "")])

GatewayOps ==
    {"query", "batch_put_document", "delete_document", "get_query_suggestions", "describe_index"}

\* The record of a method call: the method, its arguments, whether self.client
\* was set when it began, the backend's reply if the backend was reached, and
\* the method's end.
Called(op, args, reply, end) ==
    [op |-> op, args |-> args, had_client |-> client # "None",
     reply |-> IF end.made THEN reply ELSE NoReply,
     made |-> end.made, request |-> end.request,
     outcome |-> end.outcome, value |-> end.value]

\* KendraService(): self.client = None
GatewayNew ==
    /\ client = "None"
    /\ call = [op |-> "__init__", args |-> <<>>, had_client |-> FALSE, reply |-> NoReply,
               made |-> FALSE, request |-> NoRequest, outcome |-> "returned", value |-> "None"]

\* initialize_client: boto3.client(...) returns a client, or raises and
\* self.client stays as it was.
InitializeClient ==
    \E with_credentials \in BOOLEAN, created \in BOOLEAN :
        /\ client' = IF created THEN "kendra" ELSE client
        /\ call' = Called("initialize_client", [aws_credentials |-> with_credentials], NoReply,
                          Return(IF created
                                 THEN <<"True", "Kendra client initialized successfully">>
                                 ELSE <<"False", "Failed to initialize Kendra client: ">>))
        /\ UNCHANGED <<chunkVars, batchVars, sessionVars, restVars>>

QueryTexts == {"what is kendra"}
MaxResultsArgs ==
    {[given |-> FALSE, value |-> 0]} \cup {[given |-> TRUE, value |-> n] : n \in 1..MaxResultsArg}

Query ==
    \E query_text \in QueryTexts, max_results \in MaxResultsArgs, reply \in Replies(QueryResponses) :
        /\ call' = Called("query", [query_text |-> query_text, max_results |-> max_results],
                          reply, query(client, query_text, max_results, reply))
        /\ UNCHANGED <<client, chunkVars, batchVars, sessionVars, restVars>>

DocumentLists == {<<>>, <<[Id |-> "doc-1", Title |-> "a.txt", ContentType |-> "PLAIN_TEXT"]>>}

BatchPutDocument ==
    \E documents \in DocumentLists, reply \in Replies(BatchPutResponses) :
        /\ call' = Called("batch_put_document", [documents |-> documents],
                          reply, batch_put_document(client, documents, reply))
        /\ UNCHANGED <<client, chunkVars, batchVars, sessionVars, restVars>>

DeleteDocument ==
    \E document_id \in {"doc-1"}, reply \in Replies(DeleteResponses) :
        /\ call' = Called("delete_document", [document_id |-> document_id],
                          reply, delete_document(client, document_id, reply))
        /\ UNCHANGED <<client, chunkVars, batchVars, sessionVars, restVars>>

GetQuerySuggestions ==
    \E query_text \in QueryTexts, max_suggestions \in {1, 5}, reply \in Replies(SuggestionResponses) :
        /\ call' = Called("get_query_suggestions",
                          [query_text |-> query_text, max_suggestions |-> max_suggestions],
                          reply, get_query_suggestions(client, query_text, max_suggestions, reply))
        /\ UNCHANGED <<client, chunkVars, batchVars, sessionVars, restVars>>

DescribeIndex ==
    \E reply \in Replies(DescribeResponses) :
        /\ call' = Called("describe_index", <<>>, reply, describe_index(client, reply))
        /\ UNCHANGED <<client, chunkVars, batchVars, sessionVars, restVars>>

GatewayNext ==
    \/ InitializeClient
    \/ Query
    \/ BatchPutDocument
    \/ DeleteDocument
    \/ GetQuerySuggestions
    \/ DescribeIndex

----------------------------------------------------------------------------
(* Python string helpers *)

RECURSIVE Join(_, _)
\* sep.join(parts)
Join(sep, parts) ==
    IF parts = <<>> THEN <<>>
    ELSE IF Len(parts) = 1 THEN parts[1]
    ELSE parts[1] \o sep \o Join(sep, Tail(parts))

Digits == <<"0", "1", "2", "3", "4", "5", "6", "7", "8", "9">>

RECURSIVE Str(_)
\* str(n) for n >= 0
Str(n) == IF n < 10 THEN <<Digits[n + 1]>> ELSE Str(n \div 10) \o <<Digits[(n % 10) + 1]>>

UpperCase == <<"A", "B", "C", "D", "F", "J", "N", "O", "P", "S", "T", "V", "X", "Y", "Z">>
LowerCase == <<"a", "b", "c", "d", "f", "j", "n", "o", "p", "s", "t", "v", "x", "y", "z">>

\* c.lower(), over the letters the file names use
LowerChar(c) ==
    IF \E i \in 1..Len(UpperCase) : UpperCase[i] = c
    THEN LowerCase[CHOOSE i \in 1..Len(UpperCase) : UpperCase[i] = c]
    ELSE c

\* s.lower()
Lower(s) == [i \in 1..Len(s) |-> LowerChar(s[i])]

\* s.split('.')[-1]: what follows the last dot, or all of s without one
AfterLastDot(s) ==
    LET dots == {i \in 1..Len(s) : s[i] = "."}
    IN  IF dots = {} THEN s
        ELSE SubSeq(s, (CHOOSE i \in dots : \A j \in dots : j <= i) + 1, Len(s))

\* s.strip() is not empty
HasText(s) == \E i \in 1..Len(s) : s[i] \notin {" ", "\n"}

\* dict.update
Update(d, u) == [k \in DOMAIN d \cup DOMAIN u |-> IF k \in DOMAIN u THEN u[k] ELSE d[k]]

----------------------------------------------------------------------------
(* Config.validate *)

required_fields ==
    << [field |-> <<"A", "W", "S", "_", "A", "C", "C", "E", "S", "S", "_", "K", "E", "Y", "_", "I", "D">>, value |-> config.AWS_ACCESS_KEY_ID],
       [field |-> <<"A", "W", "S", "_", "S", "E", "C", "R", "E", "T", "_", "A", "C", "C", "E", "S", "S", "_", "K", "E", "Y">>, value |-> config.AWS_SECRET_ACCESS_KEY],
       [field |-> <<"K", "E", "N", "D", "R", "A", "_", "I", "N", "D", "E", "X", "_", "I", "D">>, value |-> config.KENDRA_INDEX_ID] >>

IsMissing(f) == f.value = ""

\* [field for field, value in required_fields if not value]
missing_fields ==
    [i \in 1..Len(SelectSeq(required_fields, IsMissing)) |->
        SelectSeq(required_fields, IsMissing)[i].field]

validate ==
    IF missing_fields # <<>>
    THEN [is_valid |-> FALSE,
          message |-> <<"M", "i", "s", "s", "i", "n", "g", " ", "r", "e", "q", "u", "i", "r", "e", "d", " ", "c", "o", "n", "f", "i", "g", "u", "r", "a", "t", "i", "o", "n", ":", " ">> \o Join(<<",", " ">>, missing_fields)]
    ELSE [is_valid |-> TRUE, message |-> <<"C", "o", "n", "f", "i", "g", "u", "r", "a", "t", "i", "o", "n", " ", "v", "a", "l", "i", "d">>]

----------------------------------------------------------------------------
(* Uploaded files.  `lib` is what the format's library makes of the bytes:  *)
(* it raises, or yields the decoded text (TXT, the JSON dump, the CSV       *)
(* rendering), the pages or paragraphs, the tables, the columns, the rows.  *)

MAX_FILE_SIZE_MB == 10

Parsed(txt, parts, tables, columns, rows) ==
    [raises |-> FALSE, message |-> <<>>, text |-> txt, parts |-> parts,
     tables |-> tables, columns |-> columns, rows |-> rows]

Broken(message) ==
    [raises |-> TRUE, message |-> message, text |-> <<>>, parts |-> <<>>,
     tables |-> <<>>, columns |-> <<>>, rows |-> 0]

SampleFiles ==
    { [name |-> <<"a", ".", "t", "x", "t">>, size |-> 3, lib |-> Parsed(<<"h", "i", "!">>, <<>>, <<>>, <<>>, 0)],
      [name |-> <<"b", ".", "T", "X", "T">>, size |-> 10485760, lib |-> Parsed(<<>>, <<>>, <<>>, <<>>, 0)],
      [name |-> <<"c", ".", "t", "x", "t">>, size |-> 2, lib |-> Broken(<<"b", "a", "d", " ", "u", "t", "f", "-", "8">>)],
      [name |-> <<"d", ".", "p", "d", "f">>, size |-> 10485761, lib |-> Parsed(<<>>, <<<<"p">>>>, <<>>, <<>>, 0)],
      [name |-> <<"v", "1", ".", "e", ".", "P", "d", "f">>, size |-> 9, lib |-> Parsed(<<>>, <<<<"a", "b">>, <<"c">>>>, <<>>, <<>>, 0)],
      [name |-> <<"f", ".", "x", "y", "z">>, size |-> 3, lib |-> Parsed(<<"h", "i", "!">>, <<>>, <<>>, <<>>, 0)],
      [name |-> <<"n", "o", "t", "e", "s">>, size |-> 3, lib |-> Parsed(<<"h", "i", "!">>, <<>>, <<>>, <<>>, 0)],
      [name |-> <<"g", ".", "j", "s", "o", "n">>, size |-> 1, lib |-> Broken(<<"b", "a", "d", " ", "j", "s", "o", "n">>)],
      [name |-> <<"j", ".", "J", "S", "O", "N">>, size |-> 2, lib |-> Parsed(<<"{", "}">>, <<>>, <<>>, <<>>, 0)],
      [name |-> <<"s", ".", "c", "s", "v">>, size |-> 8, lib |-> Parsed(<<" ", "x", "\n", "0", " ", "1">>, <<>>, <<>>, <<<<"x">>>>, 1)],
      [name |-> <<"p", ".", "d", "o", "c", "x">>, size |-> 7,
       lib |-> Parsed(<<>>, <<<<"P", "1">>, <<" ">>, <<"P", "2">>>>, <<<<<<<<"a">>, <<"b">>>>>>>>, <<>>, 0)] }

Batches == SeqsUpTo(SampleFiles, MaxBatch)

----------------------------------------------------------------------------
(* DocumentProcessor: the format handlers, process_file and validate_file. *)
(* A handler ends raised with its message, or returns text and metadata.   *)

Failed(message) == [raised |-> TRUE, message |-> message, text |-> <<>>, metadata |-> <<>>]
Extracted(txt, metadata) == [raised |-> FALSE, message |-> <<>>, text |-> txt, metadata |-> metadata]

process_pdf(file) ==
    IF file.lib.raises THEN Failed(<<"E", "r", "r", "o", "r", " ", "p", "r", "o", "c", "e", "s", "s", "i", "n", "g", " ", "P", "D", "F", ":", " ">> \o file.lib.message)
    ELSE LET pages == file.lib.parts
             text_content == [n \in 1..Len(pages) |-> <<"[", "P", "a", "g", "e", " ">> \o Str(n) \o <<"]", "\n">> \o pages[n]]
         IN  Extracted(Join(<<"\n", "\n">>, text_content), [pages |-> Len(pages), format |-> "PDF"])

process_txt(file) ==
    IF file.lib.raises THEN Failed(<<"E", "r", "r", "o", "r", " ", "p", "r", "o", "c", "e", "s", "s", "i", "n", "g", " ", "T", "X", "T", ":", " ">> \o file.lib.message)
    ELSE Extracted(file.lib.text, [format |-> "TXT", size |-> Len(file.lib.text)])

process_docx(file) ==
    IF file.lib.raises THEN Failed(<<"E", "r", "r", "o", "r", " ", "p", "r", "o", "c", "e", "s", "s", "i", "n", "g", " ", "D", "O", "C", "X", ":", " ">> \o file.lib.message)
    ELSE LET paragraphs == file.lib.parts
             tables == file.lib.tables
             kept == SelectSeq(paragraphs, HasText)
             RECURSIVE Rows(_)
             Rows(ts) ==
                 IF ts = <<>> THEN <<>>
                 ELSE [r \in 1..Len(Head(ts)) |-> Join(<<" ", "|", " ">>, Head(ts)[r])] \o Rows(Tail(ts))
         IN  Extracted(Join(<<"\n", "\n">>, kept \o Rows(tables)),
                       [format |-> "DOCX", paragraphs |-> Len(paragraphs), tables |-> Len(tables)])

process_csv(file) ==
    IF file.lib.raises THEN Failed(<<"E", "r", "r", "o", "r", " ", "p", "r", "o", "c", "e", "s", "s", "i", "n", "g", " ", "C", "S", "V", ":", " ">> \o file.lib.message)
    ELSE LET columns == file.lib.columns
             text_content ==
                 <<"C", "S", "V", " ", "D", "a", "t", "a", " ", "S", "u", "m", "m", "a", "r", "y", ":", "\n">>
                     \o <<"C", "o", "l", "u", "m", "n", "s", ":", " ">> \o Join(<<",", " ">>, columns) \o <<"\n">>
                     \o <<"R", "o", "w", "s", ":", " ">> \o Str(file.lib.rows) \o <<"\n", "\n">>
                     \o <<"D", "a", "t", "a", ":", "\n">>
                     \o file.lib.text
         IN  Extracted(text_content,
                       [format |-> "CSV", rows |-> file.lib.rows, columns |-> Len(columns),
                        column_names |-> columns])

process_json(file) ==
    IF file.lib.raises THEN Failed(<<"E", "r", "r", "o", "r", " ", "p", "r", "o", "c", "e", "s", "s", "i", "n", "g", " ", "J", "S", "O", "N", ":", " ">> \o file.lib.message)
    ELSE Extracted(file.lib.text, [format |-> "JSON", size |-> Len(file.lib.text)])

\* uploaded_file.name.split('.')[-1].lower()
file_extension(file) == Lower(AfterLastDot(file.name))

supported_types == {<<"p", "d", "f">>, <<"t", "x", "t">>, <<"d", "o", "c", "x">>, <<"c", "s", "v">>, <<"j", "s", "o", "n">>}

\* processors: the handler each extension is mapped to
processor_for(ext) ==
    CASE ext = <<"p", "d", "f">> -> "process_pdf"
      [] ext = <<"t", "x", "t">> -> "process_txt"
      [] ext = <<"d", "o", "c", "x">> -> "process_docx"
      [] ext = <<"c", "s", "v">> -> "process_csv"
      [] ext = <<"j", "s", "o", "n">> -> "process_json"

\* processor(uploaded_file)
run_processor(processor, file) ==
    CASE processor = "process_pdf" -> process_pdf(file)
      [] processor = "process_txt" -> process_txt(file)
      [] processor = "process_docx" -> process_docx(file)
      [] processor = "process_csv" -> process_csv(file)
      [] processor = "process_json" -> process_json(file)

\* raise ValueError(f"Unsupported file type: {file_extension}")
unsupported_file_type(ext) == Failed(<<"U", "n", "s", "u", "p", "p", "o", "r", "t", "e", "d", " ", "f", "i", "l", "e", " ", "t", "y", "p", "e", ":", " ">> \o ext)

\* The dict process_file passes to metadata.update
common_metadata_size(file, ext) ==
    [filename |-> file.name, size |-> file.size, file_type |-> ext]
common_metadata(file, ext) ==
    [filename |-> file.name, file_size |-> file.size, file_type |-> ext]

process_file(file) ==
    LET ext == file_extension(file)
    IN  IF ext \notin supported_types THEN unsupported_file_type(ext)
        ELSE LET out == run_processor(processor_for(ext), file)
             IN  IF out.raised THEN out
                 ELSE Extracted(out.text, Update(out.metadata, common_metadata(file, ext)))

validate_file_lenient(file, max_size_mb) == [is_valid |-> TRUE, error |-> <<>>]
validate_file(file, max_size_mb) ==
    LET max_size_bytes == max_size_mb * 1024 * 1024
    IN  IF file.size > max_size_bytes
        THEN [is_valid |-> FALSE, error |-> <<"F", "i", "l", "e", " ", "s", "i", "z", "e", " ", "e", "x", "c", "e", "e", "d", "s", " ">> \o Str(max_size_mb) \o <<"M", "B", " ", "l", "i", "m", "i", "t">>]
        ELSE IF file_extension(file) \notin supported_types
        THEN [is_valid |-> FALSE,
              error |-> <<"U", "n", "s", "u", "p", "p", "o", "r", "t", "e", "d", " ", "f", "i", "l", "e", " ", "t", "y", "p", "e", ".", " ", "S", "u", "p", "p", "o", "r", "t", "e", "d", ":", " ", "p", "d", "f", ",", " ", "t", "x", "t", ",", " ", "d", "o", "c", "x", ",", " ", "c", "s", "v", ",", " ", "j", "s", "o", "n">>]
        ELSE [is_valid |-> TRUE, error |-> <<>>]

----------------------------------------------------------------------------
(* DocumentProcessor.process_file, statement by statement *)

FileNames ==
    { <<"a", ".", "t", "x", "t">>, <<"b", ".", "T", "X", "T">>, <<"v", "1", ".", "e", ".", "P", "d", "f">>, <<"p", ".", "d", "o", "c", "x">>, <<"s", ".", "c", "s", "v">>, <<"j", ".", "J", "S", "O", "N">>,
      <<"f", ".", "x", "y", "z">>, <<"a", ".", "t", "x", "t", ".", "b", "a", "k">>, <<"x", ".">>, <<"n", "o", "t", "e", "s">>, <<"t", "x", "t">>, <<"P", "D", "F">>, <<".", "c", "s", "v">> }

\* A body every handler can read, and one none can.
FileBodies ==
    { Parsed(<<"h", "i">>, <<<<"P", "1">>, <<" ">>>>, <<<<<<<<"a">>, <<"b">>>>>>>>, <<<<"x">>>>, 1),
      Broken(<<"b", "a", "d", " ", "b", "y", "t", "e", "s">>) }

FilesToProcess == {[name |-> n, size |-> z, lib |-> b] : n \in FileNames, z \in {3, 7}, b \in FileBodies}

NoFile == [name |-> <<>>, size |-> 0, lib |-> Broken(<<>>)]
NoResult == Extracted(<<>>, <<>>)

\* No call of process_file under way.
ExtractIdle ==
    /\ upload = NoFile
    /\ invoked = <<>>
    /\ handled = NoResult
    /\ processed = NoResult
    /\ pcFile = "idle"

\* A call process_file(uploaded_file) about to run.
ProcessFileCall ==
    /\ upload \in FilesToProcess
    /\ invoked = <<>>
    /\ handled = NoResult
    /\ processed = NoResult
    /\ pcFile = "entry"

\* file_extension = ...; if file_extension not in processors: raise;
\* processor = processors[file_extension]
ProcessFileDispatch ==
    /\ pcFile = "entry"
    /\ IF file_extension(upload) \notin supported_types
       THEN /\ processed' = unsupported_file_type(file_extension(upload))
            /\ pcFile' = "raised"
       ELSE /\ pcFile' = "dispatched"
            /\ UNCHANGED processed
    /\ UNCHANGED <<upload, invoked, handled>>
    /\ UNCHANGED <<chunkVars, gatewayVars, batchVars, sessionVars, config, chatVars>>

\* text_content, metadata = processor(uploaded_file); what the handler raises
\* leaves process_file.
ProcessFileRunHandler ==
    /\ pcFile = "dispatched"
    /\ LET processor == processor_for(file_extension(upload))
           out == run_processor(processor, upload)
       IN  /\ invoked' = Append(invoked, processor)
           /\ handled' = out
           /\ IF out.raised
              THEN processed' = out /\ pcFile' = "raised"
              ELSE pcFile' = "handled" /\ UNCHANGED processed
    /\ UNCHANGED upload
    /\ UNCHANGED <<chunkVars, gatewayVars, batchVars, sessionVars, config, chatVars>>

\* metadata.update({...}); return text_content, metadata
ProcessFileAttach ==
    /\ pcFile = "handled"
    /\ processed' = Extracted(handled.text,
                              Update(handled.metadata,
                                     common_metadata(upload, file_extension(upload))))
    /\ pcFile' = "returned"
    /\ UNCHANGED <<upload, invoked, handled>>
    /\ UNCHANGED <<chunkVars, gatewayVars, batchVars, sessionVars, config, chatVars>>

ExtractNext == ProcessFileDispatch \/ ProcessFileRunHandler \/ ProcessFileAttach

----------------------------------------------------------------------------
(* utils/session_manager.py and pages/home.py process_files *)

DEFAULT_CHUNK_SIZE == 1000
DEFAULT_OVERLAP == 200

\* initialize_session_state: the document list and its counter
SessionNew ==
    /\ uploaded_documents = <<>>
    /\ doc_count = 0
    /\ last_action = "init"

\* st.session_state.uploaded_documents.append(doc_info)
add_uploaded_document(documents, doc_info) == Append(documents, doc_info)

\* Where the loop goes after a file that failed: `continue`, and the end of
\* the except clause, both go on with the next file.
next_after_failure_break(i, total_files) == total_files
next_after_failure(i, total_files) == i + 1

BatchIdle ==
    /\ uploaded_files = <<>>
    /\ idx = 0 /\ successful = 0 /\ failed = 0
    /\ events = <<>>
    /\ pcFiles = "idle"

\* process_files(uploaded_files) up to the loop: successful = 0; failed = 0
ProcessFilesCall ==
    /\ uploaded_files \in Batches
    /\ idx = 0 /\ successful = 0 /\ failed = 0
    /\ events = <<>>
    /\ pcFiles = "loop"

Event(step, i) == [step |-> step, idx |-> i]

\* One pass of `for idx, uploaded_file in enumerate(uploaded_files)`.
ProcessFilesIterate ==
    /\ pcFiles = "loop"
    /\ idx < Len(uploaded_files)
    /\ LET uploaded_file == uploaded_files[idx + 1]
           total_files == Len(uploaded_files)
           checked == validate_file(uploaded_file, MAX_FILE_SIZE_MB)
           out == process_file(uploaded_file)
           begun == events \o <<Event("status", idx), Event("validate", idx)>>
       IN  IF ~checked.is_valid
           THEN \* st.warning; failed += 1; continue
                /\ events' = Append(begun, Event("warning", idx))
                /\ failed' = failed + 1
                /\ idx' = next_after_failure(idx, total_files)
                /\ UNCHANGED <<successful, sessionVars>>
           ELSE IF out.raised
           THEN \* except Exception: st.error; failed += 1
                /\ events' = begun \o <<Event("extract", idx), Event("error", idx)>>
                /\ failed' = failed + 1
                /\ idx' = next_after_failure(idx, total_files)
                /\ UNCHANGED <<successful, sessionVars>>
           ELSE LET pieces == chunk_text(out.text, DEFAULT_CHUNK_SIZE, DEFAULT_OVERLAP)
                    doc_info == [filename |-> uploaded_file.name,
                                 size |-> uploaded_file.size,
                                 type |-> out.metadata.format,
                                 metadata |-> out.metadata,
                                 content |-> out.text,
                                 chunks |-> Len(pieces)]
                IN  /\ events' = begun \o <<Event("extract", idx), Event("chunk", idx),
                                            Event("add", idx), Event("success", idx)>>
                    /\ uploaded_documents' = add_uploaded_document(uploaded_documents, doc_info)
                    /\ doc_count' = Len(uploaded_documents')
                    /\ last_action' = "add"
                    /\ successful' = successful + 1
                    /\ idx' = idx + 1
                    /\ UNCHANGED failed
    /\ UNCHANGED <<uploaded_files, pcFiles, chunkVars, gatewayVars, restVars>>

\* After the loop: the final status line.
ProcessFilesFinish ==
    /\ pcFiles = "loop"
    /\ idx >= Len(uploaded_files)
    /\ events' = Append(events, Event("completed", idx))
    /\ pcFiles' = "done"
    /\ UNCHANGED <<uploaded_files, idx, successful, failed, sessionVars, chunkVars, gatewayVars, restVars>>

BatchNext == ProcessFilesIterate \/ ProcessFilesFinish

----------------------------------------------------------------------------
(* utils/session_manager.py: the chat log *)

MaxTurns == 3

Roles == {"user", "assistant"}
Contents == {"what is kendra"}
\* sources=None, sources=[] and a list of one source
SourcesArgs == {[given |-> FALSE, value |-> <<>>], [given |-> TRUE, value |-> <<>>],
                [given |-> TRUE, value |-> <<"a.txt">>]}
\* confidence=None and a score
ConfidenceArgs == {"None", "0.9"}

\* initialize_session_state: chat_history = []; current_conversation = []
ChatNew ==
    /\ chat_history = <<>>
    /\ current_conversation = <<>>
    /\ chat_op = "init"
    /\ now = 0

\* sources or []
sources_or_empty(sources) == IF sources.given /\ sources.value # <<>> THEN sources.value ELSE <<>>

\* The message dictionary add_to_chat_history builds.
message(role, content, sources, confidence, timestamp) ==
    [role |-> role, content |-> content, timestamp |-> timestamp,
     sources |-> sources_or_empty(sources), confidence |-> confidence]

\* The two lists after add_to_chat_history.
add_to_chat_history(history, conversation, new_message) ==
    [chat_history |-> Append(history, new_message),
     current_conversation |-> Append(conversation, new_message)]

\* The two lists after clear_chat_history.
clear_chat_history_all(history, conversation) ==
    [chat_history |-> <<>>, current_conversation |-> <<>>]
clear_chat_history(history, conversation) ==
    [chat_history |-> history, current_conversation |-> <<>>]

AddToChatHistory ==
    \E role \in Roles, content \in Contents, sources \in SourcesArgs, confidence \in ConfidenceArgs :
        /\ Len(chat_history) < MaxTurns
        /\ LET after == add_to_chat_history(chat_history, current_conversation,
                                            message(role, content, sources, confidence, now))
           IN  /\ chat_history' = after.chat_history
               /\ current_conversation' = after.current_conversation
        /\ chat_op' = "add"
        /\ now' = now + 1
        /\ UNCHANGED <<chunkVars, gatewayVars, batchVars, sessionVars, extractVars, config>>

ClearChatHistory ==
    /\ LET after == clear_chat_history(chat_history, current_conversation)
       IN  /\ chat_history' = after.chat_history
           /\ current_conversation' = after.current_conversation
    /\ chat_op' = "clear"
    /\ UNCHANGED now
    /\ UNCHANGED <<chunkVars, gatewayVars, batchVars, sessionVars, extractVars, config>>

ChatNext == AddToChatHistory \/ ClearChatHistory

----------------------------------------------------------------------------
(* The document list: add_uploaded_document and the buttons of
   display_uploaded_documents *)

MaxDocs == 4

DocInfos ==
    {[filename |-> "a.txt", size |-> 3, type |-> "TXT", chunks |-> 1],
     [filename |-> "d.pdf", size |-> 7, type |-> "PDF", chunks |-> 2],
     [filename |-> "s.csv", size |-> 5, type |-> "CSV", chunks |-> 1]}

\* list.pop(idx), idx counted from 0
Pop(documents, i) == SubSeq(documents, 1, i) \o SubSeq(documents, i + 2, Len(documents))

\* The Delete button of document idx: pop(idx); doc_count = len(...)
delete_uploaded_document_stale(documents, count, i) ==
    [uploaded_documents |-> Pop(documents, i), doc_count |-> count]
delete_uploaded_document(documents, count, i) ==
    [uploaded_documents |-> Pop(documents, i), doc_count |-> Len(Pop(documents, i))]

\* The Clear All Documents button: only a non-empty list is reset.
clear_all_documents(documents, count) ==
    IF documents # <<>>
    THEN [uploaded_documents |-> <<>>, doc_count |-> 0]
    ELSE [uploaded_documents |-> documents, doc_count |-> count]

AddUploadedDocument ==
    \E doc_info \in DocInfos :
        /\ Len(uploaded_documents) < MaxDocs
        /\ uploaded_documents' = add_uploaded_document(uploaded_documents, doc_info)
        /\ doc_count' = Len(uploaded_documents')
        /\ last_action' = "add"
        /\ UNCHANGED <<chunkVars, gatewayVars, batchVars, restVars>>

\* One Delete button is drawn for each document of the list.
DeleteUploadedDocument ==
    \E i \in 0..(Len(uploaded_documents) - 1) :
        /\ LET after == delete_uploaded_document(uploaded_documents, doc_count, i)
           IN  /\ uploaded_documents' = after.uploaded_documents
               /\ doc_count' = after.doc_count
        /\ last_action' = "delete"
        /\ UNCHANGED <<chunkVars, gatewayVars, batchVars, restVars>>

\* display_uploaded_documents, and its button, are there only while the list
\* is not empty.
ClearAllDocuments ==
    /\ uploaded_documents # <<>>
    /\ LET after == clear_all_documents(uploaded_documents, doc_count)
       IN  /\ uploaded_documents' = after.uploaded_documents
           /\ doc_count' = after.doc_count
    /\ last_action' = "clear"
    /\ UNCHANGED <<chunkVars, gatewayVars, batchVars, restVars>>

DocumentsNext == AddUploadedDocument \/ DeleteUploadedDocument \/ ClearAllDocuments

----------------------------------------------------------------------------
(* Specifications: one per component, the others at rest *)

InitChunk == ChunkCall /\ GatewayNew /\ BatchIdle /\ SessionNew /\ ExtractIdle /\ ConfigComplete /\ ChatNew
SpecChunk == InitChunk /\ [][ChunkNext]_vars

\* The loop is sequential code: a call that can take a step takes it.
SpecChunkFair == SpecChunk /\ WF_vars(ChunkNext)

InitGateway == ChunkIdle /\ GatewayNew /\ BatchIdle /\ SessionNew /\ ExtractIdle /\ ConfigLoaded /\ ChatNew
SpecGateway == InitGateway /\ [][GatewayNext]_vars

InitBatch == ChunkIdle /\ GatewayNew /\ ProcessFilesCall /\ SessionNew /\ ExtractIdle /\ ConfigComplete /\ ChatNew
SpecBatch == InitBatch /\ [][BatchNext]_vars

InitExtract == ChunkIdle /\ GatewayNew /\ BatchIdle /\ SessionNew /\ ProcessFileCall /\ ConfigComplete /\ ChatNew
SpecExtract == InitExtract /\ [][ExtractNext]_vars

InitChat == ChunkIdle /\ GatewayNew /\ BatchIdle /\ SessionNew /\ ExtractIdle /\ ConfigComplete /\ ChatNew
SpecChat == InitChat /\ [][ChatNext]_vars

InitDocuments == ChunkIdle /\ GatewayNew /\ BatchIdle /\ SessionNew /\ ExtractIdle /\ ConfigComplete /\ ChatNew
SpecDocuments == InitDocuments /\ [][DocumentsNext]_vars

----------------------------------------------------------------------------
(* Properties of chunk_text *)

Step == chunk_size - overlap
Returned == pcChunk = "returned"

\* The iteration just made left `start` where it was or moved it back, with
\* text still left to read.
WindowStalled ==
    /\ pcChunk = "while"
    /\ Len(windows) > 0
    /\ start <= windows[Len(windows)][1]
    /\ WhileCond(start, Len(text))

\* C1: a call with overlap >= chunk_size is rejected with InvalidChunkConfig:
\* it never returns normally and never makes an iteration that fails to
\* advance the window start while start < len(text).
C1_DegenerateConfigRejected ==
    overlap >= chunk_size =>
        /\ pcChunk \in {"entry", "while", "raised"}
        /\ ~WindowStalled

\* C2 as stated: for 0 <= overlap < chunk_size the number of chunks returned is
\* ceil((len - overlap) / (chunk_size - overlap)) when len > overlap, 1 when
\* 0 < len <= overlap, and 0 for the empty text.
C2_CountAsStated ==
    (Returned /\ 0 <= overlap /\ overlap < chunk_size) =>
        Len(chunks) = IF Len(text) = 0 THEN 0
                      ELSE IF Len(text) <= overlap THEN 1
                      ELSE CeilDiv(Len(text) - overlap, Step)

\* C2 (amended): for 0 <= overlap < chunk_size the number of chunks returned is
\* ceil(len(text) / (chunk_size - overlap)), which is 0 for the empty text.
C2_ChunkCount ==
    (Returned /\ 0 <= overlap /\ overlap < chunk_size) => Len(chunks) = CeilDiv(Len(text), Step)

\* A returned call with a positive overlap whose count differs from the count
\* C2 states.
C2_Witness ==
    /\ Returned /\ 0 < overlap /\ overlap < chunk_size
    /\ Len(text) > overlap
    /\ Len(chunks) > CeilDiv(Len(text) - overlap, Step)

OverlapAgrees(i) == PyLast(chunks[i], overlap) = PyFirst(chunks[i + 1], overlap)

\* C3 as stated: for 0 < overlap < chunk_size every adjacent pair of returned
\* chunks, other than the pair ending in the final chunk, has the last
\* `overlap` characters of the first equal to the first `overlap` characters of
\* the second.
C3_OverlapAsStated ==
    (Returned /\ 0 < overlap /\ overlap < chunk_size) =>
        \A i \in 1..(Len(chunks) - 2) : OverlapAgrees(i)

\* C3 (amended): for 0 < overlap < chunk_size every adjacent pair of returned
\* chunks whose second chunk has at least `overlap` characters has the last
\* `overlap` characters of the first equal to the first `overlap` characters of
\* the second.
C3_OverlapInvariant ==
    (Returned /\ 0 < overlap /\ overlap < chunk_size) =>
        \A i \in 1..(Len(chunks) - 1) :
            Len(chunks[i + 1]) >= overlap => OverlapAgrees(i)

\* A returned call with a pair that overlaps as required, and a later chunk,
\* not the final one, that is shorter than the overlap.
C3_Witness ==
    /\ Returned /\ 0 < overlap /\ overlap < chunk_size
    /\ \E i \in 1..(Len(chunks) - 1) : Len(chunks[i + 1]) >= overlap /\ OverlapAgrees(i)
    /\ \E i \in 1..(Len(chunks) - 2) : Len(chunks[i + 1]) < overlap

\* Offset p of the text (from 0) is inside window k and chunk k holds its
\* character.
Covers(k, p) ==
    /\ windows[k][1] <= p
    /\ p < windows[k][2]
    /\ p - windows[k][1] + 1 <= Len(chunks[k])
    /\ chunks[k][p - windows[k][1] + 1] = text[p + 1]

C5_Window ==
    overlap < chunk_size =>
        /\ Len(windows) = Len(chunks)
        /\ Len(chunks) <= Len(text)
        /\ pcChunk \in {"while", "returned"} => start = Len(chunks) * Step
        /\ \A k \in 1..Len(chunks) :
              /\ windows[k][1] = (k - 1) * Step
              /\ windows[k][1] < Len(text)
              /\ chunks[k] = PySlice(text, (k - 1) * Step, (k - 1) * Step + chunk_size)
        /\ \A k \in 1..(Len(chunks) - 1) : windows[k][1] < windows[k + 1][1]
        /\ Returned => start >= Len(text)

\* C5: for overlap < chunk_size the call terminates; its k-th chunk (from 0) is
\* text[k*(chunk_size-overlap) : k*(chunk_size-overlap)+chunk_size]; the start
\* offsets increase strictly; and the loop stops at the first
\* start >= len(text).
C5_SlidingWindow ==
    /\ []C5_Window
    /\ (overlap < chunk_size) ~> Returned

\* A returned call that emitted three or more chunks, the last one cut short
\* by the end of the text.
C5_Witness ==
    /\ Returned /\ overlap < chunk_size
    /\ Len(chunks) >= 3
    /\ Len(chunks[Len(chunks)]) < chunk_size

----------------------------------------------------------------------------
(* Properties of KendraService *)

BeforeConnection == call.op \in GatewayOps /\ ~call.had_client

\* C7 as stated: every gateway operation invoked while no client is
\* established fails with the not-connected error and makes no backend call.
C7_AllOperationsFail ==
    BeforeConnection =>
        /\ ~call.made
        /\ call.outcome = "raised"
        /\ call.value = NotInitialized

\* C7 (amended): invoked while no client is established, query,
\* batch_put_document, delete_document and describe_index fail with the
\* not-connected error and get_query_suggestions returns an empty sequence;
\* none of the five makes a backend call.
C7_NotConnected ==
    BeforeConnection =>
        /\ ~call.made
        /\ call.request = NoRequest
        /\ IF call.op = "get_query_suggestions"
           THEN call.outcome = "returned" /\ call.value = <<>>
           ELSE call.outcome = "raised" /\ call.value = NotInitialized

\* delete_document called on a gateway whose client was never established.
C7_Witness ==
    /\ call.op = "delete_document"
    /\ ~call.had_client
    /\ call.outcome = "raised"

\* C8: with a client established, get_query_suggestions never raises; when
\* the backend call fails it returns the empty sequence, and when the backend
\* returns no suggestions it returns the empty sequence.
C8_SuggestionsDegrade ==
    (call.op = "get_query_suggestions" /\ call.had_client) =>
        /\ call.made
        /\ call.outcome = "returned"
        /\ call.reply.raises => call.value = <<>>
        /\ (~call.reply.raises /\ Get(call.reply.response, "Suggestions", <<>>) = <<>>)
              => call.value = <<>>

\* A suggestion lookup on an established client whose backend call failed.
C8_Witness ==
    /\ call.op = "get_query_suggestions"
    /\ call.had_client
    /\ call.reply.raises

QueryReturned == call.op = "query" /\ call.outcome = "returned"

BackendResultItems == Get(call.reply.response, "ResultItems", <<>>)

\* The SearchResult that backend item `item` stands for.
IsNormalizationOf(r, item) ==
    /\ r.id = (IF "Id" \in DOMAIN item THEN item.Id ELSE "")
    /\ r.type = (IF "Type" \in DOMAIN item THEN item.Type ELSE "")
    /\ r.score = (IF "ScoreAttributes" \in DOMAIN item
                  THEN item.ScoreAttributes.ScoreConfidence ELSE "UNKNOWN")
    /\ r.document_title = (IF "DocumentTitle" \in DOMAIN item
                           THEN item.DocumentTitle.Text ELSE "Untitled")
    /\ r.document_excerpt = (IF "DocumentExcerpt" \in DOMAIN item
                             THEN item.DocumentExcerpt.Text ELSE "")
    /\ r.document_uri = (IF "DocumentURI" \in DOMAIN item THEN item.DocumentURI ELSE "")

\* C9: the items query returns are the backend's ResultItems in the backend's
\* order: as many as the backend gave, the i-th the normalization of the
\* backend's i-th.
C9_BackendOrder ==
    QueryReturned =>
        /\ Len(call.value.items) = Len(BackendResultItems)
        /\ call.value.total_results = Len(BackendResultItems)
        /\ \A i \in 1..Len(BackendResultItems) :
              IsNormalizationOf(call.value.items[i], BackendResultItems[i])

\* A query that returned three items, the first and the last different.
C9_Witness ==
    /\ QueryReturned
    /\ Len(call.value.items) = 3
    /\ call.value.items[1].id # call.value.items[3].id

\* C10: the number of items query returns is at most max_results, or at most
\* KENDRA_MAX_RESULTS when max_results is not given, whatever the backend
\* response holds.
C10_AtMostMaxResults ==
    QueryReturned =>
        Len(call.value.items) <= (IF call.args.max_results.given
                                  THEN call.args.max_results.value
                                  ELSE KENDRA_MAX_RESULTS)

\* C14: with a required connection parameter (AWS access key id, AWS secret
\* access key, Kendra index id) absent, so that Config.validate() is false, no
\* gateway operation reaches the backend.
C14_NoCallWithoutConfig ==
    (call.op \in GatewayOps /\ call.made) => validate.is_valid

----------------------------------------------------------------------------
(* Properties of process_files *)

\* A file the batch should take: within the size limit, of a supported type,
\* and readable by its format's library.
Sound(file) ==
    /\ file.size <= MAX_FILE_SIZE_MB * 1024 * 1024
    /\ file_extension(file) \in supported_types
    /\ ~file.lib.raises

IsStatus(e) == e.step = "status"

\* The files visited so far, in the order visited.
Visited == [i \in 1..Len(SelectSeq(events, IsStatus)) |-> SelectSeq(events, IsStatus)[i].idx]

SoundAmong(n) == {i \in 1..n : Sound(uploaded_files[i])}

RECURSIVE SoundNames(_)
\* The names of the sound files among the first n, in input order.
SoundNames(n) ==
    IF n = 0 THEN <<>>
    ELSE IF Sound(uploaded_files[n])
    THEN Append(SoundNames(n - 1), uploaded_files[n].name)
    ELSE SoundNames(n - 1)

\* C6: in process_files over n files every file is visited once, in input
\* order, whatever happened to the files before it; each visited file is
\* counted as one of successful or failed; at completion
\* successful + failed = n; and the uploaded-document list holds the
\* successful files and only those, in input order.
C6_BatchIsolation ==
    pcFiles \in {"loop", "done"} =>
        /\ idx <= Len(uploaded_files)
        /\ Visited = [i \in 1..idx |-> i - 1]
        /\ successful + failed = idx
        /\ successful = Cardinality(SoundAmong(idx))
        /\ [i \in 1..Len(uploaded_documents) |-> uploaded_documents[i].filename] = SoundNames(idx)
        /\ doc_count = successful
        /\ pcFiles = "done" =>
              /\ idx = Len(uploaded_files)
              /\ successful + failed = Len(uploaded_files)

\* A completed batch of three files whose second file failed and whose first
\* and third are in the document list.
C6_Witness ==
    /\ pcFiles = "done"
    /\ Len(uploaded_files) = 3
    /\ ~Sound(uploaded_files[2])
    /\ successful = 2 /\ failed = 1
    /\ Len(uploaded_documents) = 2
    /\ uploaded_documents[1].filename = uploaded_files[1].name
    /\ uploaded_documents[2].filename = uploaded_files[3].name
    /\ uploaded_files[1].name # uploaded_files[3].name

----------------------------------------------------------------------------
(* process_file: dispatch and common metadata *)

\* The name has a dot, so something is written after it as its extension.
HasExtension(name) == \E i \in 1..Len(name) : name[i] = "."

\* What follows the last dot of a name that has one, in lower case.
ExtensionOf(name) ==
    LET last == CHOOSE i \in 1..Len(name) :
                    name[i] = "." /\ \A j \in (i + 1)..Len(name) : name[j] # "."
    IN  Lower(SubSeq(name, last + 1, Len(name)))

FiveFormats == {<<"p", "d", "f">>, <<"t", "x", "t">>, <<"d", "o", "c", "x">>, <<"c", "s", "v">>, <<"j", "s", "o", "n">>}

HandlerOf(format) ==
    CASE format = <<"p", "d", "f">> -> "process_pdf"
      [] format = <<"t", "x", "t">> -> "process_txt"
      [] format = <<"d", "o", "c", "x">> -> "process_docx"
      [] format = <<"c", "s", "v">> -> "process_csv"
      [] format = <<"j", "s", "o", "n">> -> "process_json"

IsUnsupportedFormat(result) ==
    /\ result.raised
    /\ Len(result.message) >= 22
    /\ SubSeq(result.message, 1, 22) = <<"U", "n", "s", "u", "p", "p", "o", "r", "t", "e", "d", " ", "f", "i", "l", "e", " ", "t", "y", "p", "e", ":">>

ProcessFileEnded == pcFile \in {"handled", "returned", "raised"}

\* C11: process_file calls exactly the one handler of the file name's
\* extension, compared without regard to case, when that extension is pdf,
\* txt, docx, csv or json; for every other name, a name without an extension
\* included, it fails as an unsupported format and calls no handler.
C11_ExtensionDispatch ==
    /\ ~ProcessFileEnded => invoked = <<>>
    /\ ProcessFileEnded =>
           IF HasExtension(upload.name) /\ ExtensionOf(upload.name) \in FiveFormats
           THEN invoked = <<HandlerOf(ExtensionOf(upload.name))>>
           ELSE invoked = <<>> /\ pcFile = "raised" /\ IsUnsupportedFormat(processed)

\* C12: in what process_file returns, every key the handler put into the
\* metadata is still there with the handler's value, for each of the five
\* handlers; the text is the handler's too.
C12_FormatMetadataKept ==
    pcFile = "returned" =>
        /\ invoked \in {<<HandlerOf(f)>> : f \in FiveFormats}
        /\ \A k \in DOMAIN handled.metadata :
               /\ k \in DOMAIN processed.metadata
               /\ processed.metadata[k] = handled.metadata[k]
        /\ processed.text = handled.text

\* A text file whose metadata has its own size, different from the file's
\* size, has been returned with the common metadata attached.
C12_Witness ==
    /\ pcFile = "returned"
    /\ invoked = <<"process_txt">>
    /\ "size" \in DOMAIN handled.metadata
    /\ handled.metadata.size # upload.size
    /\ processed.metadata.file_size = upload.size

----------------------------------------------------------------------------
(* process_files: validation first *)

\* The file is over the size limit or not of one of the five types.
FailsValidation(file) ==
    \/ file.size > MAX_FILE_SIZE_MB * 1024 * 1024
    \/ Lower(AfterLastDot(file.name)) \notin FiveFormats

\* The positions in events of file i's steps named step.
StepsOf(step, i) == {p \in 1..Len(events) : events[p].step = step /\ events[p].idx = i}

\* C13: in process_files each file's validation comes before any extraction
\* of that file; a file that fails validation is warned about and is never
\* extracted, chunked or added to the document list; and the backend is not
\* called: the gateway process_files constructs stays unconnected and unused.
C13_ValidateFirst ==
    pcFiles \in {"loop", "done"} =>
        /\ \A i \in 0..(Len(uploaded_files) - 1) :
              /\ \A p \in StepsOf("extract", i) : \E q \in StepsOf("validate", i) : q < p
              /\ \A p \in StepsOf("chunk", i) \cup StepsOf("add", i) :
                     \E q \in StepsOf("extract", i) : q < p
              /\ FailsValidation(uploaded_files[i + 1]) =>
                     /\ StepsOf("extract", i) \cup StepsOf("chunk", i) \cup StepsOf("add", i) = {}
                     /\ i < idx => StepsOf("warning", i) # {}
                     /\ \A d \in 1..Len(uploaded_documents) :
                            uploaded_documents[d].filename # uploaded_files[i + 1].name
        /\ ~call.made
        /\ client = "None"

\* A completed batch in which an over-size file was turned away and a file
\* after it was validated, extracted and added.
C13_Witness ==
    /\ pcFiles = "done"
    /\ \E i, j \in 0..(Len(uploaded_files) - 1) :
          /\ i < j
          /\ uploaded_files[i + 1].size > MAX_FILE_SIZE_MB * 1024 * 1024
          /\ StepsOf("warning", i) # {}
          /\ StepsOf("extract", i) = {}
          /\ StepsOf("validate", j) # {}
          /\ StepsOf("add", j) # {}

----------------------------------------------------------------------------
(* Properties of the chat log *)

IsPrefix(s, t) == Len(s) <= Len(t) /\ SubSeq(t, 1, Len(s)) = s

\* C15: over add_to_chat_history and clear_chat_history calls, an add puts
\* exactly one message at the end of chat_history and the same message at the
\* end of current_conversation, leaving the earlier messages as they were and
\* where they were; a clear leaves chat_history as it is and empties
\* current_conversation; so chat_history never shrinks and
\* current_conversation shrinks only by a clear.
C15_AppendOnly ==
    [][ /\ IsPrefix(chat_history, chat_history')
        /\ chat_op' = "add" =>
               /\ Len(chat_history') = Len(chat_history) + 1
               /\ current_conversation' = Append(current_conversation, chat_history'[Len(chat_history')])
        /\ chat_op' = "clear" =>
               /\ chat_history' = chat_history
               /\ current_conversation' = <<>>
        /\ ~IsPrefix(current_conversation, current_conversation') => chat_op' = "clear"
      ]_vars

\* Two messages were added, the conversation was cleared, and a third message
\* was added after that.
C15_Witness ==
    /\ chat_op = "add"
    /\ Len(chat_history) = 3
    /\ Len(current_conversation) = 1
    /\ current_conversation[1] = chat_history[3]

----------------------------------------------------------------------------
(* Properties of the document list *)

\* C16: after session initialization, whatever documents are added, deleted
\* one at a time or cleared all at once, doc_count is the length of
\* uploaded_documents.
C16_CountIsLength == doc_count = Len(uploaded_documents)

\* One of three documents has just been deleted.
C16_Witness ==
    /\ last_action = "delete"
    /\ Len(uploaded_documents) = 2
    /\ doc_count = 2

Init == InitChunk \/ InitGateway \/ InitBatch \/ InitExtract \/ InitChat \/ InitDocuments
Next == ChunkNext \/ GatewayNext \/ BatchNext \/ ExtractNext \/ ChatNext \/ DocumentsNext
Spec == Init /\ [][Next]_vars

====
